---- MODULE Spec2Model ----
(***************************************************************************)
(* ResourcePool / ResourceGroup (lib/ResourcePool.js, lib/ResourceGroup.js) *)
(*                                                                         *)
(* The module-level WeakMaps of the library are modelled as functions      *)
(* whose domain is the set of objects that have an entry.  The host's      *)
(* timer queue (setTimeout / clearTimeout) is the set `timers`.  Time is   *)
(* abstracted: every interval is a positive integer, so a timer never      *)
(* fires in the turn that armed it, and a pending timer may fire in any    *)
(* later turn, in any order relative to the other pending timers.          *)
(* JavaScript is single threaded: a timer fires only while no user         *)
(* callback is on the stack; user code inside a callback may call the      *)
(* public API re-entrantly.                                                *)
(***************************************************************************)
EXTENDS Integers, Sequences, FiniteSets, TLC

\* ---------------------------------------------------------------- bounds
MaxCapacity == 3
MaxGroupCapacity == 2
MaxMembers == 2
MaxCalls == MaxCapacity + 2

\* The standalone pool object of the pool specification.
ThePool == 0
\* "no pool": no user callback is on the stack.
NoPool == -1

VARIABLES
  poolSizes,        \* WeakMap poolSizes        : pool -> capacity
  currentPoolSize,  \* WeakMap currentPoolSize  : pool -> remaining
  callbacks,        \* WeakMap callbacks (pool) : pool -> which callback it holds
  cycles,           \* WeakMap cycles           : pool -> timeout id
  timers,           \* host timer queue: pending timeouts [id, pool]
  members,          \* WeakMap pools (group)    : the group's pool list
  inCallback,       \* pool whose cycle firing is running the user callback
  lastOp,           \* history: the operation that produced this state
  result,           \* history: return value of the last consume()
  thrown,           \* history: error thrown by the last operation
  calls,            \* history: consume() calls made on the standalone pool
  fired,            \* history: some cycle timer has fired
  destroyed,        \* history: pools on which destroy() was called
  cancelled,        \* history: pools whose pending cycle destroy() cleared
  args              \* the arguments of the constructor call under test

vars == <<poolSizes, currentPoolSize, callbacks, cycles, timers, members,
          inCallback, lastOp, result, thrown, calls, fired, destroyed,
          cancelled, args>>

\* ------------------------------------------------------- WeakMap helpers
Put(f, k, v) == [x \in (DOMAIN f) \cup {k} |-> IF x = k THEN v ELSE f[x]]

Delete(f, k) == [x \in (DOMAIN f) \ {k} |-> f[x]]

EmptyMap == <<>>

\* The part of the state the pool methods read and write.
PoolState ==
  [poolSizes |-> poolSizes, currentPoolSize |-> currentPoolSize,
   cycles |-> cycles, timers |-> timers, ret |-> FALSE]

\* ------------------------------------------------------------ ResourcePool
\* get remaining
remaining(s, p) == s.currentPoolSize[p]

\* Mutant: off-by-one exhaustion test.
exhausted_Strict(s, p) == remaining(s, p) < 0

\* get exhausted
exhausted(s, p) == remaining(s, p) <= 0

\* Mutant: the refill overshoots the capacity by one.
replenish_Overfill(s, p) ==
  [s EXCEPT !.currentPoolSize = Put(@, p, s.poolSizes[p] + 1)]

replenish(s, p) ==
  [s EXCEPT !.currentPoolSize = Put(@, p, s.poolSizes[p])]

\* setTimeout returns a handle no live timeout and no stored handle uses.
UsedTimerIds(s) ==
  {t.id : t \in s.timers} \cup {s.cycles[q] : q \in DOMAIN s.cycles}

NewTimerId(s) ==
  CHOOSE i \in 1..(Cardinality(UsedTimerIds(s)) + 1) :
    /\ i \notin UsedTimerIds(s)
    /\ \A j \in 1..(i - 1) : j \in UsedTimerIds(s)

\* Mutant: the timeout is never scheduled.
startCycle_NotScheduled(s, p) ==
  [id |-> NewTimerId(s), timers |-> s.timers]

\* startCycle: schedules the replenishment and returns the timeout id.
startCycle(s, p) ==
  [id |-> NewTimerId(s),
   timers |-> s.timers \cup {[id |-> NewTimerId(s), pool |-> p]}]

\* Mutant: a timeout is scheduled on every successful call.
consume_AlwaysArm(s, p) ==
  IF exhausted(s, p)
  THEN [s EXCEPT !.ret = FALSE]
  ELSE LET s1 == [s EXCEPT !.currentPoolSize[p] = remaining(s, p) - 1]
           c  == startCycle(s1, p)
       IN [s1 EXCEPT !.timers = c.timers,
                     !.cycles = Put(@, p, c.id),
                     !.ret = TRUE]

\* Mutant: a call on an exhausted pool restarts the pending cycle.
consume_RearmOnExhausted(s, p) ==
  LET s1 == [s EXCEPT !.currentPoolSize[p] = remaining(s, p) - 1]
      c  == startCycle(s1, p)
      r  == [s EXCEPT !.timers = {t \in @ : t.pool # p}]
      d  == startCycle(r, p)
  IN IF exhausted(s, p)
     THEN [r EXCEPT !.timers = d.timers,
                    !.cycles = Put(@, p, d.id),
                    !.ret = FALSE]
     ELSE IF p \notin DOMAIN s1.cycles
          THEN [s1 EXCEPT !.timers = c.timers,
                          !.cycles = Put(@, p, c.id),
                          !.ret = TRUE]
          ELSE [s1 EXCEPT !.ret = TRUE]

\* Mutant: a successful call restarts a cycle that is already pending.
consume_Restart(s, p) ==
  IF exhausted(s, p)
  THEN [s EXCEPT !.ret = FALSE]
  ELSE LET s1 == [s EXCEPT !.currentPoolSize[p] = remaining(s, p) - 1,
                           !.timers = {t \in @ : t.pool # p}]
           c  == startCycle(s1, p)
       IN [s1 EXCEPT !.timers = c.timers,
                     !.cycles = Put(@, p, c.id),
                     !.ret = TRUE]

consume(s, p) ==
  IF exhausted(s, p)
  THEN [s EXCEPT !.ret = FALSE]
  ELSE LET s1 == [s EXCEPT !.currentPoolSize[p] = remaining(s, p) - 1]
           c  == startCycle(s1, p)
       IN IF p \notin DOMAIN s1.cycles
          THEN [s1 EXCEPT !.timers = c.timers,
                          !.cycles = Put(@, p, c.id),
                          !.ret = TRUE]
          ELSE [s1 EXCEPT !.ret = TRUE]

\* clearTimeout(id): a no-op when no pending timeout has that id.
clearTimeout(ts, id) == {t \in ts : t.id # id}

\* Mutant: the pending timeout is left running.
destroy_NoClear(s, p) == s

\* Mutant: destroy() also empties the pool.
destroy_Drain(s, p) ==
  IF p \in DOMAIN s.cycles
  THEN [s EXCEPT !.timers = clearTimeout(@, s.cycles[p]),
                 !.currentPoolSize[p] = 0]
  ELSE [s EXCEPT !.currentPoolSize[p] = 0]

\* Mutant: destroy() also removes the cycles entry.
destroy_DeleteCycle(s, p) ==
  IF p \in DOMAIN s.cycles
  THEN [s EXCEPT !.timers = clearTimeout(@, s.cycles[p]),
                 !.cycles = Delete(@, p)]
  ELSE s

destroy(s, p) ==
  IF p \in DOMAIN s.cycles
  THEN [s EXCEPT !.timers = clearTimeout(@, s.cycles[p])]
  ELSE s

\* ------------------------------------------------- utils / ErrorMessages
\* A JavaScript number argument is modelled by twice its value, so that the
\* halves (0.5, 1.5, -0.5, ...) stand for the non-integer numbers.
Num(n) == 2 * n

ToInt(num) == num \div 2

isPositive(num) == num > 0

\* parseInt(num, 10): the digits of String(num) before the decimal point,
\* i.e. num truncated toward zero.
parseInt(num) ==
  IF num >= 0 THEN 2 * (num \div 2) ELSE 0 - 2 * ((0 - num) \div 2)

isInt(num) == num = parseInt(num)

isFunction(fn) == fn = "function"

INVALID_POOL_SIZE_VALUE == "Invalid poolSize value. Must be positive."

INVALID_POOL_SIZE_TYPE == "Invalid poolSize value. Must be integer."

INVALID_INTERVAL_VALUE == "Invalid interval value. Must be positive."

INVALID_CALLBACK_TYPE == "Invalid callback value. Must be function."

\* Mutant: the interval is validated before the pool size.
construct_IntervalFirst(s, p, poolSize, interval, callback) ==
  IF ~ isPositive(interval)
  THEN [error |-> INVALID_INTERVAL_VALUE, s |-> s]
  ELSE IF ~ isInt(interval)
  THEN [error |-> INVALID_INTERVAL_VALUE, s |-> s]
  ELSE IF ~ isPositive(poolSize)
  THEN [error |-> INVALID_POOL_SIZE_VALUE, s |-> s]
  ELSE IF ~ isInt(poolSize)
  THEN [error |-> INVALID_POOL_SIZE_TYPE, s |-> s]
  ELSE LET s1 == [s EXCEPT !.poolSizes = Put(@, p, ToInt(poolSize))]
       IN IF ~ isFunction(callback)
          THEN [error |-> INVALID_CALLBACK_TYPE, s |-> s1]
          ELSE [error |-> "none", s |-> replenish(s1, p)]

\* new ResourcePool(poolSize, interval, callback): the error it throws (or
\* "none") and the pool maps it leaves.  poolSizes is written before the
\* interval and the callback are validated.
construct(s, p, poolSize, interval, callback) ==
  IF ~ isPositive(poolSize)
  THEN [error |-> INVALID_POOL_SIZE_VALUE, s |-> s]
  ELSE IF ~ isInt(poolSize)
  THEN [error |-> INVALID_POOL_SIZE_TYPE, s |-> s]
  ELSE LET s1 == [s EXCEPT !.poolSizes = Put(@, p, ToInt(poolSize))]
       IN IF ~ isPositive(interval)
          THEN [error |-> INVALID_INTERVAL_VALUE, s |-> s1]
          ELSE IF ~ isInt(interval)
          THEN [error |-> INVALID_INTERVAL_VALUE, s |-> s1]
          ELSE IF ~ isFunction(callback)
          THEN [error |-> INVALID_CALLBACK_TYPE, s |-> s1]
          ELSE [error |-> "none", s |-> replenish(s1, p)]

\* ----------------------------------------------------------- ResourceGroup
\* Mutant: the comparison is reversed (the largest value wins).
RECURSIVE MathMin_Reversed(_)
MathMin_Reversed(list) ==
  IF Len(list) = 1 THEN list[1]
  ELSE LET m == MathMin_Reversed(Tail(list))
       IN IF list[1] > m THEN list[1] ELSE m

RECURSIVE MathMin(_)
MathMin(list) ==
  IF Len(list) = 1 THEN list[1]
  ELSE LET m == MathMin(Tail(list))
       IN IF list[1] < m THEN list[1] ELSE m

\* The validation at the head of add(): the error it throws, or "none".
addError(poolSize, interval) ==
  IF ~ isPositive(poolSize) THEN INVALID_POOL_SIZE_VALUE
  ELSE IF ~ isInt(poolSize) THEN INVALID_POOL_SIZE_TYPE
  ELSE IF ~ isPositive(interval) THEN INVALID_INTERVAL_VALUE
  ELSE IF ~ isInt(interval) THEN INVALID_INTERVAL_VALUE
  ELSE "none"

\* Mutant: the empty pool list is not rejected (Math.min() of nothing).
groupRemaining_NoThrow(s, poolList) ==
  IF Len(poolList) = 0
  THEN [error |-> "none", value |-> MaxCapacity + MaxGroupCapacity + 1]
  ELSE [error |-> "none",
        value |-> MathMin([i \in 1..Len(poolList) |->
                             remaining(s, poolList[i])])]

\* get remaining (group): throws on an empty pool list.
groupRemaining(s, poolList) ==
  IF Len(poolList) = 0
  THEN [error |-> "NO_RESOURCE_POOLS_FOUND", value |-> 0]
  ELSE [error |-> "none",
        value |-> MathMin([i \in 1..Len(poolList) |->
                             remaining(s, poolList[i])])]

\* get exhausted (group)
groupExhausted(s, poolList) ==
  LET r == groupRemaining(s, poolList)
  IN [error |-> r.error, value |-> (r.error = "none" /\ r.value <= 0)]

\* Mutant: the group's callback is called whatever the group's state.
replenishCallback_Unconditional(s, poolList) == TRUE

\* replenishCallback (bound to the group): TRUE iff it calls the group's
\* callback.
replenishCallback(s, poolList) == ~ groupExhausted(s, poolList).value

\* Mutant: only the first pool of the list is visited.
RECURSIVE forEachConsume_FirstOnly(_, _)
forEachConsume_FirstOnly(s, poolList) ==
  IF poolList = <<>> THEN s
  ELSE consume(s, Head(poolList))

RECURSIVE forEachConsume(_, _)
forEachConsume(s, poolList) ==
  IF poolList = <<>> THEN s
  ELSE forEachConsume(consume(s, Head(poolList)), Tail(poolList))

\* Mutant: only the first pool of the list is destroyed.
RECURSIVE forEachDestroy_FirstOnly(_, _)
forEachDestroy_FirstOnly(s, poolList) ==
  IF poolList = <<>> THEN s
  ELSE destroy(s, Head(poolList))

RECURSIVE forEachDestroy(_, _)
forEachDestroy(s, poolList) ==
  IF poolList = <<>> THEN s
  ELSE forEachDestroy(destroy(s, Head(poolList)), Tail(poolList))

\* --------------------------------------------------------------- initial
\* No constructor call is under test.
NoArgs == [poolSize |-> 0, interval |-> 0, callback |-> "none"]

InitCommon ==
  /\ cycles = EmptyMap
  /\ timers = {}
  /\ inCallback = NoPool
  /\ lastOp = "new"
  /\ result = FALSE
  /\ thrown = "none"
  /\ calls = 0
  /\ fired = FALSE
  /\ destroyed = {}
  /\ cancelled = {}
  /\ args = NoArgs

\* new ResourcePool(c, interval, onReplenished)
Init ==
  /\ \E c \in 1..MaxCapacity :
       /\ poolSizes = Put(EmptyMap, ThePool, c)
       /\ currentPoolSize = Put(EmptyMap, ThePool, c)
  /\ callbacks = Put(EmptyMap, ThePool, "onReplenished")
  /\ members = <<>>
  /\ InitCommon

\* new ResourceGroup(onGroupReplenished)
GroupInit ==
  /\ poolSizes = EmptyMap
  /\ currentPoolSize = EmptyMap
  /\ callbacks = EmptyMap
  /\ members = <<>>
  /\ InitCommon

\* --------------------------------------------------------------- actions
Store(s) ==
  /\ poolSizes' = s.poolSizes
  /\ currentPoolSize' = s.currentPoolSize
  /\ cycles' = s.cycles
  /\ timers' = s.timers

\* Pools whose pending timeout a destroy() of the pools in ps clears.
Clears(ps) ==
  {p \in ps : p \in DOMAIN cycles /\ \E t \in timers : t.id = cycles[p]}

\* pool.consume()
PoolConsume ==
  LET s == consume(PoolState, ThePool)
  IN /\ Store(s)
     /\ result' = s.ret
     /\ lastOp' = "consume"
     /\ thrown' = "none"
     /\ calls' = IF calls < MaxCalls THEN calls + 1 ELSE calls
     /\ UNCHANGED <<callbacks, members, inCallback, fired, destroyed,
                    cancelled, args>>

\* pool.destroy()
PoolDestroy ==
  LET s == destroy(PoolState, ThePool)
  IN /\ Store(s)
     /\ lastOp' = "destroy"
     /\ thrown' = "none"
     /\ destroyed' = destroyed \cup {ThePool}
     /\ cancelled' = cancelled \cup Clears({ThePool})
     /\ UNCHANGED <<callbacks, members, inCallback, result, calls, fired,
                    args>>

\* Mutant: the callback is invoked on every firing.
FireCycle_AlwaysInvoke(t) ==
  LET p  == t.pool
      s0 == [PoolState EXCEPT !.timers = @ \ {t},
                              !.cycles = Delete(@, p)]
      s1 == replenish(s0, p)
  IN /\ inCallback = NoPool
     /\ t \in timers
     /\ Store(s1)
     /\ inCallback' = p
     /\ lastOp' = "fire"
     /\ thrown' = "none"
     /\ fired' = TRUE
     /\ UNCHANGED <<callbacks, members, result, calls, destroyed, cancelled,
                    args>>

\* Mutant: the callback runs before the counter is reset.
FireCycle_CallbackFirst(t) ==
  LET p  == t.pool
      s0 == [PoolState EXCEPT !.timers = @ \ {t},
                              !.cycles = Delete(@, p)]
      poolLasExhausted == exhausted(s0, p)
      s1 == replenish(s0, p)
  IN /\ inCallback = NoPool
     /\ t \in timers
     /\ Store(IF poolLasExhausted THEN s0 ELSE s1)
     /\ inCallback' = IF poolLasExhausted THEN p ELSE NoPool
     /\ lastOp' = "fire"
     /\ thrown' = "none"
     /\ fired' = TRUE
     /\ UNCHANGED <<callbacks, members, result, calls, destroyed, cancelled,
                    args>>

\* Mutant: exhaustion is sampled after the counter has been reset.
FireCycle_SampleAfterReset(t) ==
  LET p  == t.pool
      s0 == [PoolState EXCEPT !.timers = @ \ {t},
                              !.cycles = Delete(@, p)]
      s1 == replenish(s0, p)
      poolLasExhausted == exhausted(s1, p)
  IN /\ inCallback = NoPool
     /\ t \in timers
     /\ Store(s1)
     /\ inCallback' = IF poolLasExhausted THEN p ELSE NoPool
     /\ lastOp' = "fire"
     /\ thrown' = "none"
     /\ fired' = TRUE
     /\ UNCHANGED <<callbacks, members, result, calls, destroyed, cancelled,
                    args>>

\* Mutant: the cycles entry is not removed when the timer fires.
FireCycle_KeepCycle(t) ==
  LET p  == t.pool
      s0 == [PoolState EXCEPT !.timers = @ \ {t}]
      poolLasExhausted == exhausted(s0, p)
      s1 == replenish(s0, p)
      invoke ==
        /\ poolLasExhausted
        /\ \/ callbacks[p] = "onReplenished"
           \/ /\ callbacks[p] = "replenishCallback"
              /\ replenishCallback(s1, members)
  IN /\ inCallback = NoPool
     /\ t \in timers
     /\ Store(s1)
     /\ inCallback' = IF invoke THEN p ELSE NoPool
     /\ lastOp' = "fire"
     /\ thrown' = "none"
     /\ fired' = TRUE
     /\ UNCHANGED <<callbacks, members, result, calls, destroyed, cancelled,
                    args>>

\* Mutant: the group's callback is decided on the state before the refill.
FireCycle_RelayBeforeReset(t) ==
  LET p  == t.pool
      s0 == [PoolState EXCEPT !.timers = @ \ {t},
                              !.cycles = Delete(@, p)]
      poolLasExhausted == exhausted(s0, p)
      s1 == replenish(s0, p)
      invoke ==
        /\ poolLasExhausted
        /\ \/ callbacks[p] = "onReplenished"
           \/ /\ callbacks[p] = "replenishCallback"
              /\ replenishCallback(s0, members)
  IN /\ inCallback = NoPool
     /\ t \in timers
     /\ Store(s1)
     /\ inCallback' = IF invoke THEN p ELSE NoPool
     /\ lastOp' = "fire"
     /\ thrown' = "none"
     /\ fired' = TRUE
     /\ UNCHANGED <<callbacks, members, result, calls, destroyed, cancelled,
                    args>>

\* The timeout body of startCycle, run by the host when timer t is due.
\* A member pool's callback is the group's replenishCallback, which runs
\* inside this turn and calls the user's callback unless the group is
\* exhausted.
FireCycle(t) ==
  LET p  == t.pool
      s0 == [PoolState EXCEPT !.timers = @ \ {t},
                              !.cycles = Delete(@, p)]
      poolLasExhausted == exhausted(s0, p)
      s1 == replenish(s0, p)
      invoke ==
        /\ poolLasExhausted
        /\ \/ callbacks[p] = "onReplenished"
           \/ /\ callbacks[p] = "replenishCallback"
              /\ replenishCallback(s1, members)
  IN /\ inCallback = NoPool
     /\ t \in timers
     /\ Store(s1)
     /\ inCallback' = IF invoke THEN p ELSE NoPool
     /\ lastOp' = "fire"
     /\ thrown' = "none"
     /\ fired' = TRUE
     /\ UNCHANGED <<callbacks, members, result, calls, destroyed, cancelled,
                    args>>

\* The user callback returns to the host.
CallbackReturn ==
  /\ inCallback # NoPool
  /\ inCallback' = NoPool
  /\ lastOp' = "return"
  /\ thrown' = "none"
  /\ UNCHANGED <<poolSizes, currentPoolSize, callbacks, cycles, timers,
                 members, result, calls, fired, destroyed, cancelled, args>>

\* Mutant: the new pool is appended before the interval is validated.
GroupAdd_PushFirst(poolSize, interval) ==
  LET p  == Len(members) + 1
      e  == addError(poolSize, interval)
      e1 == addError(poolSize, Num(1))
      c  == construct(PoolState, p, poolSize, Num(1), "function")
  IN /\ (e1 = "none" => Len(members) < MaxMembers)
     /\ lastOp' = "add"
     /\ thrown' = e
     /\ IF e1 # "none"
        THEN UNCHANGED <<poolSizes, currentPoolSize, cycles, timers,
                         callbacks, members>>
        ELSE /\ Store(c.s)
             /\ callbacks' = Put(callbacks, p, "replenishCallback")
             /\ members' = Append(members, p)
     /\ UNCHANGED <<inCallback, result, calls, fired, destroyed, cancelled,
                    args>>

\* group.add(poolSize, interval)
GroupAdd(poolSize, interval) ==
  LET p == Len(members) + 1
      e == addError(poolSize, interval)
      c == construct(PoolState, p, poolSize, interval, "function")
  IN /\ (e = "none" => Len(members) < MaxMembers)
     /\ lastOp' = "add"
     /\ IF e # "none"
        THEN /\ thrown' = e
             /\ UNCHANGED <<poolSizes, currentPoolSize, cycles, timers,
                            callbacks, members>>
        ELSE IF c.error # "none"
        THEN /\ thrown' = c.error
             /\ Store(c.s)
             /\ UNCHANGED <<callbacks, members>>
        ELSE /\ thrown' = "none"
             /\ Store(c.s)
             /\ callbacks' = Put(callbacks, p, "replenishCallback")
             /\ members' = Append(members, p)
     /\ UNCHANGED <<inCallback, result, calls, fired, destroyed, cancelled,
                    args>>

\* group.consume()
GroupConsume ==
  LET e == groupExhausted(PoolState, members)
      s == forEachConsume(PoolState, members)
  IN /\ lastOp' = "consume"
     /\ thrown' = e.error
     /\ IF e.error # "none"
        THEN UNCHANGED <<poolSizes, currentPoolSize, cycles, timers, result>>
        ELSE IF e.value
             THEN /\ result' = FALSE
                  /\ UNCHANGED <<poolSizes, currentPoolSize, cycles, timers>>
             ELSE /\ result' = TRUE
                  /\ Store(s)
     /\ UNCHANGED <<callbacks, members, inCallback, calls, fired, destroyed,
                    cancelled, args>>

\* group.destroy()
GroupDestroy ==
  LET s == forEachDestroy(PoolState, members)
      ps == {members[i] : i \in 1..Len(members)}
  IN /\ Store(s)
     /\ lastOp' = "destroy"
     /\ thrown' = "none"
     /\ destroyed' = destroyed \cup ps
     /\ cancelled' = cancelled \cup Clears(ps)
     /\ UNCHANGED <<callbacks, members, inCallback, result, calls, fired,
                    args>>

\* reading group.remaining
GroupGetRemaining ==
  LET r == groupRemaining(PoolState, members)
  IN /\ lastOp' = "remaining"
     /\ thrown' = r.error
     /\ UNCHANGED <<poolSizes, currentPoolSize, callbacks, cycles, timers,
                    members, inCallback, result, calls, fired, destroyed,
                    cancelled, args>>

\* reading group.exhausted
GroupGetExhausted ==
  LET e == groupExhausted(PoolState, members)
  IN /\ lastOp' = "exhausted"
     /\ thrown' = e.error
     /\ result' = IF e.error = "none" THEN e.value ELSE result
     /\ UNCHANGED <<poolSizes, currentPoolSize, callbacks, cycles, timers,
                    members, inCallback, calls, fired, destroyed, cancelled,
                    args>>

\* new ResourcePool(args.poolSize, args.interval, args.callback)
Construct ==
  LET c == construct(PoolState, ThePool, args.poolSize, args.interval,
                     args.callback)
  IN /\ lastOp = "start"
     /\ lastOp' = "construct"
     /\ thrown' = c.error
     /\ Store(c.s)
     /\ callbacks' = IF c.error = "none"
                     THEN Put(callbacks, ThePool, "onReplenished")
                     ELSE callbacks
     /\ UNCHANGED <<members, inCallback, result, calls, fired, destroyed,
                    cancelled, args>>

Fire == \E t \in timers : FireCycle(t)

\* Argument values tried: -0.5, 0, 0.5, 1, 1.5, ... up to the capacity bound.
PoolSizeArgs == -1..Num(MaxCapacity)

\* add() is tried with 0, 0.5 and every capacity up to the bound, and with
\* the intervals 0, 0.5 and 1.
GroupPoolSizeArgs == {0, 1} \cup {Num(n) : n \in 1..MaxGroupCapacity}

GroupIntervalArgs == 0..Num(1)

IntervalArgs == -1..Num(1)

CallbackArgs == {"function", "undefined"}

Next ==
  \/ PoolConsume
  \/ PoolDestroy
  \/ Fire
  \/ CallbackReturn

Spec == Init /\ [][Next]_vars

\* The host eventually runs a due timer; a user callback eventually returns.
LiveSpec == Spec /\ WF_vars(Fire) /\ WF_vars(CallbackReturn)

GroupNext ==
  \/ \E n \in GroupPoolSizeArgs, i \in GroupIntervalArgs : GroupAdd(n, i)
  \/ GroupGetRemaining
  \/ GroupGetExhausted
  \/ GroupConsume
  \/ GroupDestroy
  \/ Fire
  \/ CallbackReturn

GroupSpec == GroupInit /\ [][GroupNext]_vars

\* The steps that change the state of the group or of the host: the reads
\* and the add() calls that fail validation write nothing.
GroupLiveNext ==
  \/ \E n \in 1..MaxGroupCapacity : GroupAdd(Num(n), Num(1))
  \/ GroupConsume
  \/ GroupDestroy
  \/ Fire
  \/ CallbackReturn

\* The host eventually runs a due timer; a user callback eventually returns.
GroupLiveSpec ==
  GroupInit /\ [][GroupLiveNext]_vars /\ WF_vars(Fire) /\ WF_vars(CallbackReturn)

\* The constructor is about to be called with arguments from the bounded
\* sets; no pool exists yet.
ConstructInit ==
  /\ args \in [poolSize : PoolSizeArgs, interval : IntervalArgs,
                callback : CallbackArgs]
  /\ poolSizes = EmptyMap
  /\ currentPoolSize = EmptyMap
  /\ callbacks = EmptyMap
  /\ cycles = EmptyMap
  /\ timers = {}
  /\ members = <<>>
  /\ inCallback = NoPool
  /\ lastOp = "start"
  /\ result = FALSE
  /\ thrown = "none"
  /\ calls = 0
  /\ fired = FALSE
  /\ destroyed = {}
  /\ cancelled = {}

\* The pool methods are callable once a pool has been constructed.
ConstructNext ==
  \/ Construct
  \/ ThePool \in DOMAIN currentPoolSize /\ Next

ConstructSpec == ConstructInit /\ [][ConstructNext]_vars

\* A program holds either one standalone pool or one group.
PoolOrGroupInit == Init \/ GroupInit

PoolOrGroupNext ==
  \/ ThePool \in DOMAIN currentPoolSize /\ Next
  \/ ThePool \notin DOMAIN currentPoolSize /\ GroupNext

PoolOrGroupSpec == PoolOrGroupInit /\ [][PoolOrGroupNext]_vars

\* ---------------------------------------------------------------- claims
PendingTimers(p) == {t \in timers : t.pool = p}

Members == {members[i] : i \in 1..Len(members)}

\* C1: in every reachable state of a pool, 0 <= remaining <= capacity.
C1_RemainingInRange ==
  \A p \in DOMAIN currentPoolSize :
    /\ 0 <= currentPoolSize[p]
    /\ currentPoolSize[p] <= poolSizes[p]

\* A consume() was refused on an empty pool that had been destroyed and
\* had already been refilled by a cycle.
C1_Witness ==
  /\ fired
  /\ ThePool \in destroyed
  /\ lastOp = "consume"
  /\ ~ result
  /\ currentPoolSize[ThePool] = 0

\* C2: on a fresh pool with no cycle fired, the k-th consecutive consume()
\* returns true and leaves remaining = capacity - k for k <= capacity (so
\* the pool is exhausted after capacity calls); the (capacity+1)-th call
\* returns false and leaves remaining at 0.
C2_ConsecutiveConsume ==
  LET cap == poolSizes[ThePool]
      rem == currentPoolSize[ThePool]
  IN (~ fired /\ lastOp = "consume" /\ calls <= cap + 1) =>
       IF calls <= cap
       THEN /\ result
            /\ rem = cap - calls
            /\ (calls = cap => (rem = 0 /\ exhausted(PoolState, ThePool)))
       ELSE /\ ~ result
            /\ rem = 0

\* The (capacity+1)-th consecutive call on a pool of capacity >= 2.
C2_Witness ==
  /\ ~ fired
  /\ lastOp = "consume"
  /\ poolSizes[ThePool] >= 2
  /\ calls = poolSizes[ThePool] + 1

\* C3: a cycle firing resets remaining to capacity and invokes onReplenished
\* in that firing iff remaining was 0 immediately before the reset.
C3_FireResetsAndNotifies ==
  [][lastOp' = "fire" =>
       /\ currentPoolSize'[ThePool] = poolSizes[ThePool]
       /\ (inCallback' = ThePool) <=> (currentPoolSize[ThePool] = 0)]_vars

\* A firing refilled a partially drained pool without invoking the callback.
C3_Witness ==
  /\ lastOp = "fire"
  /\ inCallback = NoPool
  /\ poolSizes[ThePool] >= 2
  /\ currentPoolSize[ThePool] = poolSizes[ThePool]

\* C4: once destroy() has been called on a pool, onReplenished is never
\* invoked in any later step.
C4_NoCallbackAfterDestroy ==
  [][(ThePool \in destroyed) =>
       ~ (inCallback = NoPool /\ inCallback' = ThePool)]_vars

\* C5: a cycle that was pending when destroy() was called never takes
\* effect: no later step is a firing of a timer of that pool, raises its
\* remaining, or invokes its callback.
C5_CancelledCycleNeverFires ==
  [][\A p \in cancelled :
       /\ ~ (lastOp' = "fire" /\ PendingTimers(p) # {}
               /\ ~ (PendingTimers(p) \subseteq timers'))
       /\ currentPoolSize'[p] <= currentPoolSize[p]
       /\ ~ (inCallback # p /\ inCallback' = p)]_vars

\* destroy() cleared a pending cycle and the pool was then drained to 0.
C5_Witness ==
  /\ ThePool \in cancelled
  /\ lastOp = "consume"
  /\ ~ result

\* C6 (as stated): a pool with remaining < capacity has exactly one pending
\* timer, and a pool with remaining = capacity has none.
C6_TimerIffDrawnDown ==
  \A p \in DOMAIN currentPoolSize :
    Cardinality(PendingTimers(p)) =
      IF currentPoolSize[p] < poolSizes[p] THEN 1 ELSE 0

\* C6 (amended): a pool with remaining = capacity has no pending timer; a
\* pool with remaining < capacity has exactly one, unless destroy() cleared
\* its pending timer, and then it has none.
C6_TimerIffDrawnDownUnlessCancelled ==
  \A p \in DOMAIN currentPoolSize :
    Cardinality(PendingTimers(p)) =
      IF currentPoolSize[p] < poolSizes[p] /\ p \notin cancelled
      THEN 1 ELSE 0

\* A drawn-down pool right after destroy() cleared its timer.
C6_Witness ==
  /\ ThePool \in cancelled
  /\ lastOp = "destroy"
  /\ currentPoolSize[ThePool] < poolSizes[ThePool]
  /\ timers = {}

\* C7: at the moment onReplenished is invoked the pool is already full and
\* its cycles entry has been removed.
C7_CallbackSeesFullPool ==
  (lastOp = "fire" /\ inCallback # NoPool) =>
    /\ currentPoolSize[inCallback] = poolSizes[inCallback]
    /\ inCallback \notin DOMAIN cycles

\* The callback of the pool has just been invoked by a firing.
C7_Witness ==
  /\ lastOp = "fire"
  /\ inCallback = ThePool
  /\ ThePool \notin DOMAIN cycles

\* C8: an exhausted pool on which destroy() is never called eventually has
\* its cycle fire: onReplenished is invoked with remaining back at capacity.
C8_ExhaustedEventuallyReplenished ==
  (currentPoolSize[ThePool] = 0) ~>
    \/ /\ lastOp = "fire"
       /\ inCallback = ThePool
       /\ currentPoolSize[ThePool] = poolSizes[ThePool]
    \/ ThePool \in destroyed

\* A never-destroyed pool that was drained has been refilled and notified.
C8_Witness ==
  /\ lastOp = "fire"
  /\ inCallback = ThePool
  /\ ThePool \notin destroyed
  /\ calls >= poolSizes[ThePool]

\* C9: consume() on an exhausted pool returns false and changes neither
\* remaining nor the cycles entry nor the pending timers.
C9_ExhaustedConsumeNoEffect ==
  [][(lastOp' = "consume" /\ currentPoolSize[ThePool] <= 0) =>
       /\ result' = FALSE
       /\ currentPoolSize' = currentPoolSize
       /\ cycles' = cycles
       /\ timers' = timers]_vars

\* A consume() was refused while the pool's timer stayed pending.
C9_Witness ==
  /\ lastOp = "consume"
  /\ ~ result
  /\ currentPoolSize[ThePool] = 0
  /\ PendingTimers(ThePool) # {}

\* C10: for a group with at least one member, group.remaining is the
\* minimum of the members' remaining values, and group.exhausted is true
\* iff some member has remaining = 0.
C10_GroupRemainingIsMin ==
  LET r == groupRemaining(PoolState, members)
      e == groupExhausted(PoolState, members)
  IN Len(members) > 0 =>
       /\ r.error = "none"
       /\ \E p \in Members : currentPoolSize[p] = r.value
       /\ \A p \in Members : r.value <= currentPoolSize[p]
       /\ e.error = "none"
       /\ e.value <=> (\E p \in Members : currentPoolSize[p] = 0)

\* Two members with different remaining values, the last one at 0.
C10_Witness ==
  /\ Len(members) = 2
  /\ currentPoolSize[members[1]] > currentPoolSize[members[2]]
  /\ currentPoolSize[members[2]] = 0

\* C11: group.consume() on a non-empty group is all-or-nothing: with an
\* exhausted member it returns false and no counter or timer changes;
\* otherwise it returns true and every member's remaining drops by one.
C11_GroupConsumeAllOrNothing ==
  [][(lastOp' = "consume" /\ Len(members) > 0) =>
       IF \E p \in Members : currentPoolSize[p] = 0
       THEN /\ result' = FALSE
            /\ thrown' = "none"
            /\ currentPoolSize' = currentPoolSize
            /\ cycles' = cycles
            /\ timers' = timers
       ELSE /\ result' = TRUE
            /\ thrown' = "none"
            /\ \A p \in Members :
                 currentPoolSize'[p] = currentPoolSize[p] - 1]_vars

\* A group consume() was refused with one member empty and the other not.
C11_Witness ==
  /\ lastOp = "consume"
  /\ ~ result
  /\ Len(members) = 2
  /\ currentPoolSize[members[1]] > 0
  /\ currentPoolSize[members[2]] = 0

\* C12: when the group's callback is invoked every member has
\* remaining > 0; a refill that leaves another member at 0 invokes nothing.
C12_GroupCallbackOnlyWhenNotExhausted ==
  (lastOp = "fire" /\ \E p \in Members : currentPoolSize[p] = 0) =>
    inCallback = NoPool

\* A member of capacity 1 was refilled from 0 while the other member was
\* still at 0, and no callback was invoked.
C12_Witness ==
  /\ lastOp = "fire"
  /\ inCallback = NoPool
  /\ Len(members) = 2
  /\ \E p \in Members, q \in Members :
       /\ poolSizes[p] = 1
       /\ currentPoolSize[p] = 1
       /\ currentPoolSize[q] = 0

\* C13: an exhausted group on which destroy() is never called eventually
\* has its callback invoked with the group not exhausted.
C13_GroupEventuallyReplenished ==
  (Len(members) > 0 /\ groupExhausted(PoolState, members).value) ~>
    \/ /\ lastOp = "fire"
       /\ inCallback # NoPool
       /\ ~ groupExhausted(PoolState, members).value
    \/ destroyed # {}

\* The group's callback was invoked on a never-destroyed group of two
\* members with different capacities.
C13_Witness ==
  /\ lastOp = "fire"
  /\ inCallback # NoPool
  /\ destroyed = {}
  /\ Len(members) = 2
  /\ poolSizes[members[1]] # poolSizes[members[2]]
  /\ \A p \in Members : currentPoolSize[p] = poolSizes[p]

\* C14: consume() and destroy() never raise an error, on a pool or on a
\* group, also on a group without members.
C14_ConsumeDestroyNeverThrow ==
  lastOp \in {"consume", "destroy"} => thrown = "none"

\* C15: on a group without members reading remaining or exhausted fails
\* with NO_RESOURCE_POOLS_FOUND, returns nothing and changes no state; with
\* at least one member both reads succeed.
C15_EmptyGroupReadsThrow ==
  [][lastOp' \in {"remaining", "exhausted"} =>
       /\ IF Len(members) = 0
          THEN /\ thrown' = "NO_RESOURCE_POOLS_FOUND"
               /\ result' = result
          ELSE thrown' = "none"
       /\ UNCHANGED <<poolSizes, currentPoolSize, callbacks, cycles, timers,
                      members, inCallback>>]_vars

\* Reading exhausted on a group without members has just failed.
C15_Witness ==
  /\ lastOp = "exhausted"
  /\ thrown = "NO_RESOURCE_POOLS_FOUND"
  /\ Len(members) = 0

\* C16: after group.destroy() no cycle it cleared takes effect: the
\* member has no pending timer, is never refilled and never triggers the
\* group's callback.
C16_GroupDestroyCancelsCycles ==
  [][\A p \in cancelled \cap Members :
       /\ {t \in timers' : t.pool = p} = {}
       /\ currentPoolSize'[p] <= currentPoolSize[p]
       /\ (inCallback' = p => inCallback = p)]_vars

\* group.destroy() cleared the pending cycle of exactly one of the two
\* members, after some cycle had fired.
C16_Witness ==
  /\ lastOp = "destroy"
  /\ Len(members) = 2
  /\ Cardinality(cancelled) = 1
  /\ fired

\* C17: an add() that fails validation leaves the member list, every
\* member's remaining and every timer unchanged.
C17_FailedAddChangesNothing ==
  [][(lastOp' = "add" /\ thrown' # "none") =>
       UNCHANGED <<members, poolSizes, currentPoolSize, callbacks, cycles,
                   timers>>]_vars

\* An add() with a valid pool size and an invalid interval failed on a group
\* that has a drawn-down member.
C17_Witness ==
  /\ lastOp = "add"
  /\ thrown = INVALID_INTERVAL_VALUE
  /\ Len(members) > 0
  /\ timers # {}

\* The rules of the constructor, in the order they are checked, and the
\* error each one throws.
ViolatedRules(a) ==
  {r \in 1..5 :
     \/ r = 1 /\ a.poolSize <= 0
     \/ r = 2 /\ a.poolSize % 2 # 0
     \/ r = 3 /\ a.interval <= 0
     \/ r = 4 /\ a.interval % 2 # 0
     \/ r = 5 /\ a.callback # "function"}

FirstViolated(a) ==
  CHOOSE r \in ViolatedRules(a) : \A q \in ViolatedRules(a) : r <= q

RuleError(r) ==
  CASE r = 1 -> INVALID_POOL_SIZE_VALUE
    [] r = 2 -> INVALID_POOL_SIZE_TYPE
    [] r = 3 -> INVALID_INTERVAL_VALUE
    [] r = 4 -> INVALID_INTERVAL_VALUE
    [] r = 5 -> INVALID_CALLBACK_TYPE

\* C18: construction fails with the error of the first violated rule
\* (pool size positive, pool size integer, interval positive, interval
\* integer, callback callable) and succeeds, with remaining = capacity and
\* no timer armed, exactly when no rule is violated.
C18_FirstViolatedRuleWins ==
  lastOp = "construct" =>
    IF ViolatedRules(args) = {}
    THEN /\ thrown = "none"
         /\ ThePool \in DOMAIN currentPoolSize
         /\ currentPoolSize[ThePool] * 2 = args.poolSize
         /\ poolSizes[ThePool] = currentPoolSize[ThePool]
         /\ ThePool \notin DOMAIN cycles
         /\ timers = {}
    ELSE /\ thrown = RuleError(FirstViolated(args))
         /\ ThePool \notin DOMAIN currentPoolSize

\* A construction that violates three rules at once was rejected.
C18_Witness ==
  /\ lastOp = "construct"
  /\ Cardinality(ViolatedRules(args)) >= 3
  /\ FirstViolated(args) = 2

\* C19: the five rules are reported with five pairwise distinct errors: two
\* rejected constructions whose first violated rules differ throw different
\* errors.
C19_DistinctErrorKinds ==
  (lastOp = "construct" /\ thrown # "none") =>
    \A a \in [poolSize : PoolSizeArgs, interval : IntervalArgs,
              callback : CallbackArgs] :
      (ViolatedRules(a) # {} /\ FirstViolated(a) # FirstViolated(args)) =>
        construct(PoolState, ThePool, a.poolSize, a.interval,
                  a.callback).error # thrown

\* C20: destroy() is idempotent, and on a pool without a pending timer it
\* changes neither remaining nor the timer state.
C20_DestroyIdempotent ==
  LET s1 == destroy(PoolState, ThePool)
  IN /\ destroy(s1, ThePool) = s1
     /\ s1.currentPoolSize = currentPoolSize
     /\ s1.cycles = cycles
     /\ PendingTimers(ThePool) = {} => s1.timers = timers

\* destroy() has cleared a cycle of a pool that had been refilled before.
C20_Witness ==
  /\ lastOp = "destroy"
  /\ fired
  /\ ThePool \in DOMAIN cycles
  /\ PendingTimers(ThePool) = {}

\* C21: a pool never has more than one pending timer, consume() schedules
\* one only when the pool has no cycles entry, and a consume() made while a
\* timer is pending neither adds a timer nor replaces the pending one.
C21_AtMostOneTimer ==
  [][/\ \A p \in DOMAIN currentPoolSize' :
          Cardinality({t \in timers' : t.pool = p}) <= 1
     /\ (lastOp' = "consume" /\ timers' # timers) =>
          /\ ThePool \notin DOMAIN cycles
          /\ result'
     /\ (lastOp' = "consume" /\ PendingTimers(ThePool) # {}) =>
          /\ timers' = timers
          /\ cycles' = cycles]_vars

\* The second successful consume() of a cycle left the one timer pending.
C21_Witness ==
  /\ lastOp = "consume"
  /\ result
  /\ currentPoolSize[ThePool] + 2 <= poolSizes[ThePool]
  /\ Cardinality(PendingTimers(ThePool)) = 1
  /\ ThePool \notin destroyed

\* C22: in every reachable state, also after destroy(), the pool has a
\* cycles entry iff a replenishment timer is pending for it.
C22_HandleIffPending ==
  \A p \in DOMAIN currentPoolSize :
    (p \in DOMAIN cycles) <=> (PendingTimers(p) # {})

\* C23: the group's callback is invoked exactly once per exhaustion episode:
\* every invocation is a step that takes the group from exhausted to not
\* exhausted, every such step is an invocation, and the group becomes
\* exhausted only by a successful group.consume().
C23_OncePerExhaustionEpisode ==
  [][LET before == \E p \in Members : currentPoolSize[p] = 0
         after  == \E p \in Members : currentPoolSize'[p] = 0
         invoked == inCallback = NoPool /\ inCallback' # NoPool
     IN /\ invoked => (before /\ ~ after /\ lastOp' = "fire")
        /\ (before /\ ~ after) => invoked
        /\ (~ before /\ after) => (lastOp' = "consume" /\ result')]_vars

\* Two members of capacity 1, both drained by one consume(): the callback
\* has been invoked by the refill of the second of them.
C23_Witness ==
  /\ lastOp = "fire"
  /\ inCallback # NoPool
  /\ Len(members) = 2
  /\ \A p \in Members : poolSizes[p] = 1

\* C24: once destroy() has cleared a pending cycle the pool never
\* replenishes: remaining never rises, no timer is armed again, every
\* successful consume() takes one unit, and at 0 every consume() fails.
C24_NoReplenishAfterCancel ==
  [][(ThePool \in cancelled) =>
       /\ currentPoolSize'[ThePool] <= currentPoolSize[ThePool]
       /\ currentPoolSize'[ThePool] >= 0
       /\ {t \in timers' : t.pool = ThePool} = {}
       /\ lastOp' # "fire"
       /\ lastOp' = "consume" =>
            /\ result' = (currentPoolSize[ThePool] > 0)
            /\ currentPoolSize'[ThePool] =
                 currentPoolSize[ThePool] - (IF result' THEN 1 ELSE 0)]_vars

\* A consume() succeeded after destroy() cleared the cycle, and armed nothing.
C24_Witness ==
  /\ ThePool \in cancelled
  /\ lastOp = "consume"
  /\ result
  /\ timers = {}

\* C25: a consume() made as the first call inside the callback returns
\* true, takes one unit from the just-refilled pool and arms a fresh cycle
\* for it, so that pool is not left drawn down without a pending timer.
C25_ReentrantConsumeArms ==
  [][(lastOp = "fire" /\ inCallback # NoPool /\ lastOp' = "consume") =>
       LET p == inCallback
       IN /\ result'
          /\ thrown' = "none"
          /\ currentPoolSize'[p] = poolSizes[p] - 1
          /\ p \notin DOMAIN cycles
          /\ p \in DOMAIN cycles'
          /\ {t \in timers' : t.pool = p} =
               {[id |-> cycles'[p], pool |-> p]}
          /\ [id |-> cycles'[p], pool |-> p] \notin timers]_vars

\* group.consume() was called from inside the group's callback and the
\* member whose refill invoked it has a pending timer again.
C25_Witness ==
  /\ lastOp = "consume"
  /\ result
  /\ inCallback \in Members
  /\ currentPoolSize[inCallback] = poolSizes[inCallback] - 1
  /\ PendingTimers(inCallback) # {}

====
